---- MODULE Spec2Model ----
(***************************************************************************)
(* Model of SequenceDesigner.py: the pulse-program compiler of QuPyt.      *)
(*                                                                         *)
(*   PulseSequenceYaml     sidecar change cache + array path               *)
(*   PulseSequence         analog tensor, add_pulse, marker packing (make) *)
(*   PulseBlasterSequence  digital event compiler and repeat expansion     *)
(*                                                                         *)
(* Python values are represented as follows.  A dict is a sequence of      *)
(* <<key, value>> pairs with distinct keys, in insertion order (the order  *)
(* .items() and .values() enumerate); a list is a sequence; a pulse (a     *)
(* dict of fields that is only ever indexed by name) is a record whose     *)
(* DOMAIN is the set of fields present.  Times are integers.               *)
(***************************************************************************)
EXTENDS Integers, Sequences, FiniteSets, TLC

VARIABLES
    yaml_file,        \* the specification document stored at self.yaml_file
    aux,              \* the sidecar yaml_file.with_suffix(".aux")
    artifact,         \* sequence.npz as written by PulseSequence.make
    hist,             \* history: one record per translate call
    ret,              \* value returned by the last _sequence_didnt_change call
    pulses,           \* PulseSequence.pulses  [variant][row][sample]
    warning_counter,  \* PulseSequence.warning_counter
    log,              \* history: the add_pulse calls made on the PulseSequence
    pc,               \* position of the running PulseBlasterSequence call
    blk,              \* index into sequencing_order of parse_pulse_sequence_file
    event_times,      \* PulseBlasterSequence.event_times
    event_channel,    \* PulseBlasterSequence.event_channel
    events,           \* PulseBlasterSequence.events
    event_durations,  \* PulseBlasterSequence.event_durations
    channel_bits,     \* PulseBlasterSequence.channel_bits
    pop_todo,         \* remaining indices of the loop in _pop_uncessary_entries
    warned,           \* a "Skipping bad ... index" warning has been issued
    ps,               \* PulseBlasterSequence.ps
    compiled          \* the pair returned by PulseBlasterSequence.compile

cacheVars   == <<yaml_file, aux, artifact, hist, ret>>
analogVars  == <<pulses, warning_counter, log>>
digitalVars == <<pc, blk, event_times, event_channel, events, event_durations,
                 channel_bits, pop_todo, warned, ps, compiled>>
vars == <<yaml_file, aux, artifact, hist, ret, pulses, warning_counter,
          log, pc, blk, event_times, event_channel, events, event_durations,
          channel_bits, pop_todo, warned, ps, compiled>>

----------------------------------------------------------------------------
(* Bounds of the model.                                                    *)

MaxPulses   == 2    \* pulses in one block of the digital path
MaxOrder    == 2    \* length of sequencing_order / sequencing_repeats
MaxRepeat   == 3    \* largest repeat count
MaxCalls    == 2    \* translate calls in one behaviour
MaxAdds     == 2    \* add_pulse calls on one PulseSequence
ObjSeqs     == 2    \* numseqs of the PulseSequence built directly
ObjDuration == 4    \* its duration, in microseconds

----------------------------------------------------------------------------
(* Python data helpers.                                                    *)

\* Code-point order of the strings that are compared or sorted.
StrOrder == <<"A", "B", "a", "b", "down", "f", "p1", "p2", "p3", "p4",
              "sequencing_order", "sequencing_repeats", "total_duration",
              "up", "zz">>

StrRank(s) == CHOOSE i \in 1..Len(StrOrder) : StrOrder[i] = s

StrLess(s, t) == StrRank(s) < StrRank(t)

Keys(d) == {d[i][1] : i \in DOMAIN d}

HasKey(d, k) == k \in Keys(d)

Get(d, k) == d[CHOOSE i \in DOMAIN d : d[i][1] = k][2]

Values(d) == [i \in DOMAIN d |-> d[i][2]]

RECURSIVE RepeatInterleaved(_, _)
\* Repeat with a fault: every entry n times in place, [x, x, y, y]
RepeatInterleaved(s, n) ==
    IF s = <<>> \/ n <= 0 THEN <<>>
    ELSE [i \in 1..n |-> Head(s)] \o RepeatInterleaved(Tail(s), n)

RECURSIVE Repeat(_, _)
\* list * n
Repeat(s, n) == IF n <= 0 THEN <<>> ELSE s \o Repeat(s, n - 1)

Min(a, b) == IF a <= b THEN a ELSE b

\* yaml.safe_load: the mappings of the text, in the order the text lists them
YamlLoad(text) == text

\* total_duration is a number or the string "ignore"
Num(n) == [kind |-> "num", val |-> n]
Ignore == [kind |-> "str", val |-> 0]

----------------------------------------------------------------------------
(* PulseBlasterSequence: the digital event compiler.                       *)

\* channel_mapping handed to PulseBlasterSequence: channel name -> bit index
digital_mapping == [a |-> 1, b |-> 0]

EventLists(t, c, e) == [times |-> t, channel |-> c, events |-> e]

append_event(ev, channel, pulse) ==
    EventLists(ev.times \o <<pulse.start, pulse.start + pulse.duration>>,
               ev.channel \o <<channel, channel>>,
               ev.events \o <<"up", "down">>)

RECURSIVE parse_channel(_, _, _)
parse_channel(ev, channel, channel_pulses) ==
    IF channel_pulses = <<>> THEN ev
    ELSE parse_channel(append_event(ev, channel, Head(channel_pulses)),
                      channel, Tail(channel_pulses))

RECURSIVE parse_block(_, _)
parse_block(ev, ps_block) ==
    IF ps_block = <<>> THEN ev
    ELSE parse_block(parse_channel(ev, Head(ps_block)[1], Values(Head(ps_block)[2])),
                    Tail(ps_block))

\* Python's order on the (time, channel, event) tuples that sorted() compares
TupleLess(x, y) ==
    \/ x[1] < y[1]
    \/ x[1] = y[1] /\ StrLess(x[2], y[2])
    \/ x[1] = y[1] /\ x[2] = y[2] /\ StrLess(x[3], y[3])

RECURSIVE InsertSorted(_, _)
\* x goes after every element that is not greater than it (a stable insertion)
InsertSorted(s, x) ==
    IF s = <<>> THEN <<x>>
    ELSE IF TupleLess(x, Head(s)) THEN <<x>> \o s
    ELSE <<Head(s)>> \o InsertSorted(Tail(s), x)

RECURSIVE Sorted(_)
Sorted(s) == IF s = <<>> THEN <<>>
             ELSE InsertSorted(Sorted(SubSeq(s, 1, Len(s) - 1)), s[Len(s)])

Zip3(t, c, e) == [i \in DOMAIN t |-> <<t[i], c[i], e[i]>>]

RECURSIVE InsertByTime(_, _)
InsertByTime(s, x) ==
    IF s = <<>> THEN <<x>>
    ELSE IF x[1] < Head(s)[1] THEN <<x>> \o s
    ELSE <<Head(s)>> \o InsertByTime(Tail(s), x)

RECURSIVE StableByTime(_)
\* the stable sort on the time alone
StableByTime(s) == IF s = <<>> THEN <<>>
                   ELSE InsertByTime(StableByTime(SubSeq(s, 1, Len(s) - 1)), s[Len(s)])

\* sort_pulses with a fault: sorted(..., key=time)
sort_pulses_by_time(ev) ==
    LET z == StableByTime(Zip3(ev.times, ev.channel, ev.events))
    IN  EventLists([i \in DOMAIN z |-> z[i][1]],
                   [i \in DOMAIN z |-> z[i][2]],
                   [i \in DOMAIN z |-> z[i][3]])

sort_pulses(ev) ==
    LET z == Sorted(Zip3(ev.times, ev.channel, ev.events))
    IN  EventLists([i \in DOMAIN z |-> z[i][1]],
                   [i \in DOMAIN z |-> z[i][2]],
                   [i \in DOMAIN z |-> z[i][3]])

\* get_event_durations with a fault: no trailing gap
get_event_durations_no_gap(times, total) ==
    [i \in 1..(Len(times) - 1) |-> times[i + 1] - times[i]]

get_event_durations(times, total) ==
    LET n == Len(times)
        d == [i \in 1..(n - 1) |-> times[i + 1] - times[i]]
    IN  IF total.kind = "str" THEN d
        ELSE IF times[n] # total.val THEN Append(d, total.val - times[n])
        ELSE d

event_to_sign(event) == CASE event = "up" -> 1 [] event = "down" -> -1

RECURSIVE BitsLoop(_, _, _, _, _)
\* the for loop of _compute_channel_bits, from iteration i on
BitsLoop(bits, i, n, chans, evs) ==
    IF i > n THEN bits
    ELSE LET prev_val == IF bits # <<>> THEN bits[Len(bits)] ELSE 0
         IN  BitsLoop(Append(bits, prev_val
                                   + 2 ^ digital_mapping[chans[i]]
                                     * event_to_sign(evs[i])),
                      i + 1, n, chans, evs)

\* _compute_channel_bits up to the call of _pop_uncessary_entries
compute_channel_bits(bits, durs, times, chans, evs) ==
    LET b == BitsLoop(bits, 1, Len(durs), chans, evs)
    IN  IF times[1] # 0
        THEN [channel_bits |-> <<0>> \o b, durations |-> <<times[1]>> \o durs]
        ELSE [channel_bits |-> b, durations |-> durs]

RECURSIVE ZeroIndices(_, _)
\* indices (0-based) of the zero entries among the first n, largest first
ZeroIndices(durs, n) ==
    IF n = 0 THEN <<>>
    ELSE IF durs[n] = 0 THEN <<n - 1>> \o ZeroIndices(durs, n - 1)
    ELSE ZeroIndices(durs, n - 1)

IndicesToPop(durs) == ZeroIndices(durs, Len(durs))

\* list.pop(i), i 0-based
Pop(s, i) == SubSeq(s, 1, i) \o SubSeq(s, i + 2, Len(s))

InRange(i, s) == 0 <= i /\ i < Len(s)

PopDurations(durs, pop_index) ==
    IF InRange(pop_index, durs) THEN Pop(durs, pop_index) ELSE durs

\* PopBits with a fault: the bit-field list is left alone
PopBitsNever(bits, pop_index) == bits

PopBits(bits, pop_index) ==
    IF InRange(pop_index, bits) THEN Pop(bits, pop_index) ELSE bits

RECURSIVE CompileLoop(_, _, _, _, _)
\* the for loop of compile over zip(sequencing_order, sequencing_repeats)
CompileLoop(acc, i, order, repeats, table) ==
    IF i > Min(Len(order), Len(repeats)) THEN acc
    ELSE CompileLoop(
           <<acc[1] \o Repeat(table[order[i]].channel_bits, repeats[i]),
             acc[2] \o Repeat(table[order[i]].durations, repeats[i])>>,
           i + 1, order, repeats, table)

compile(order, repeats, table) ==
    CompileLoop(<<<<>>, <<>>>>, 1, order, repeats, table)

\* PulseBlasterSequence.__init__: the document loaded, and its total_duration
yaml_sequence      == YamlLoad(yaml_file)
sequencing_order   == Get(yaml_sequence, "sequencing_order")
sequencing_repeats == Get(yaml_sequence, "sequencing_repeats")
total_duration     == Get(yaml_sequence, "total_duration")

\* _parse_block of the current block; an empty block makes _sort_pulses raise
DoParseBlock ==
    /\ pc = "parse"
    /\ LET ev == parse_block(EventLists(event_times, event_channel, events),
                            Get(yaml_sequence, sequencing_order[blk]))
       IN  /\ event_times' = ev.times
           /\ event_channel' = ev.channel
           /\ events' = ev.events
    /\ pc' = "sort"
    /\ UNCHANGED <<blk, event_durations, channel_bits, pop_todo, warned, ps,
                   compiled, cacheVars, analogVars>>

DoSortPulses ==
    /\ pc = "sort"
    /\ event_times # <<>>
    /\ LET ev == sort_pulses(EventLists(event_times, event_channel, events))
       IN  /\ event_times' = ev.times
           /\ event_channel' = ev.channel
           /\ events' = ev.events
    /\ pc' = "durations"
    /\ UNCHANGED <<blk, event_durations, channel_bits, pop_todo, warned, ps,
                   compiled, cacheVars, analogVars>>

\* zip(*sorted(zip(...))) of no events: ValueError
SortPulsesFails ==
    /\ pc = "sort"
    /\ event_times = <<>>
    /\ pc' = "error"
    /\ UNCHANGED <<blk, event_times, event_channel, events, event_durations,
                   channel_bits, pop_todo, warned, ps, compiled, cacheVars,
                   analogVars>>

DoGetEventDurations ==
    /\ pc = "durations"
    /\ event_durations' = get_event_durations(event_times, total_duration)
    /\ pc' = "bits"
    /\ UNCHANGED <<blk, event_times, event_channel, events, channel_bits,
                   pop_todo, warned, ps, compiled, cacheVars, analogVars>>

DoComputeChannelBits ==
    /\ pc = "bits"
    /\ LET r == compute_channel_bits(channel_bits, event_durations, event_times,
                                   event_channel, events)
       IN  /\ channel_bits' = r.channel_bits
           /\ event_durations' = r.durations
           /\ pop_todo' = IndicesToPop(r.durations)
    /\ pc' = "pop"
    /\ UNCHANGED <<blk, event_times, event_channel, events, warned, ps,
                   compiled, cacheVars, analogVars>>

\* one iteration of the loop of _pop_uncessary_entries
PopStep ==
    /\ pc = "pop"
    /\ pop_todo # <<>>
    /\ LET pop_index == Head(pop_todo)
       IN  /\ event_durations' = PopDurations(event_durations, pop_index)
           /\ channel_bits' = PopBits(channel_bits, pop_index)
           /\ warned' = (\/ warned
                         \/ ~InRange(pop_index, event_durations)
                         \/ ~InRange(pop_index, channel_bits))
    /\ pop_todo' = Tail(pop_todo)
    /\ UNCHANGED <<pc, blk, event_times, event_channel, events, ps, compiled,
                   cacheVars, analogVars>>

PopDone ==
    /\ pc = "pop"
    /\ pop_todo = <<>>
    /\ pc' = "store"
    /\ UNCHANGED <<blk, event_times, event_channel, events, event_durations,
                   channel_bits, pop_todo, warned, ps, compiled, cacheVars,
                   analogVars>>

\* self.ps[block] = {...}; self._reset_attributes(); next block
StoreBlock ==
    /\ pc = "store"
    /\ LET block == sequencing_order[blk]
       IN  ps' = [b \in DOMAIN ps \cup {block} |->
                    IF b = block
                    THEN [channel_bits |-> channel_bits,
                          durations |-> event_durations]
                    ELSE ps[b]]
    /\ event_times' = <<>>
    /\ event_durations' = <<>>
    /\ event_channel' = <<>>
    /\ events' = <<>>
    /\ channel_bits' = <<>>
    /\ IF blk < Len(sequencing_order)
       THEN blk' = blk + 1 /\ pc' = "parse"
       ELSE blk' = blk /\ pc' = "parsed"
    /\ UNCHANGED <<pop_todo, warned, compiled, cacheVars, analogVars>>

DoCompile ==
    /\ pc = "parsed"
    /\ compiled' = compile(sequencing_order, sequencing_repeats, ps)
    /\ pc' = "done"
    /\ UNCHANGED <<blk, event_times, event_channel, events, event_durations,
                   channel_bits, pop_todo, warned, ps, cacheVars, analogVars>>

DigitalNext ==
    \/ DoParseBlock
    \/ DoSortPulses
    \/ SortPulsesFails
    \/ DoGetEventDurations
    \/ DoComputeChannelBits
    \/ PopStep
    \/ PopDone
    \/ StoreBlock
    \/ DoCompile

----------------------------------------------------------------------------
(* PulseSequence: the analog tensor.  An object is a record; a tensor is a *)
(* function [variant -> [row -> [sample -> value]]] on 0-based indices.    *)

\* samples per microsecond (samprate * 1e-6), as a fraction
samp_rate == [num |-> 1, den |-> 2]

\* awg_sources handed to the constructors
awg_sources == <<1>>

\* int(round(n / d)): Python rounds a tie to the even neighbour
RoundHalfEven(n, d) ==
    LET q == n \div d
        r == n % d
    IN  IF 2 * r < d THEN q
        ELSE IF 2 * r > d THEN q + 1
        ELSE IF q % 2 = 0 THEN q ELSE q + 1

Zeros(n, rows, points) ==
    [v \in 0..(n - 1) |-> [r \in 0..(rows - 1) |-> [s \in 0..(points - 1) |-> 0]]]

\* PulseSequence.__init__
PulseSequence(numseqs, duration, sources) ==
    LET num_points == (samp_rate.num * duration) \div samp_rate.den
    IN  [num_points |-> num_points,
         numseqs |-> numseqs,
         awg_sources |-> sources,
         pulses |-> Zeros(numseqs, 7 * Len(sources), num_points),
         warning_counter |-> 0,
         raised |-> FALSE]

\* time_to_index: the index, and the warning it counts when time is not a
\* whole number of samples
time_to_index(seq, time) ==
    [index |-> RoundHalfEven(samp_rate.num * time, samp_rate.den),
     seq |-> [seq EXCEPT !.warning_counter =
                 IF (samp_rate.num * time) % samp_rate.den # 0
                 THEN @ + 1 ELSE @]]

\* the indices a slice lo:hi selects on an axis of length n (lo, hi >= 0)
Slice(lo, hi, n) == {i \in 0..(n - 1) : lo <= i /\ i < hi}

\* cos(2 pi frequency t + phase) at the arguments the model draws: the
\* documents and calls of the model carry frequency 0 and phase 0 only
Carrier(freq, i) ==
    IF freq = <<>> THEN 1
    ELSE CASE freq[1] = 0 /\ freq[2] = 0 -> 1

\* add_pulse with a fault: the pulse is added to what the row holds
add_pulse_sum(seq, numseq, start, duration, channel, inputtype, amplitude, freq) ==
    LET t1 == IF inputtype = "time" THEN time_to_index(seq, start)
              ELSE [index |-> start, seq |-> seq]
        t2 == IF inputtype = "time" THEN time_to_index(t1.seq, duration)
              ELSE [index |-> duration, seq |-> t1.seq]
        range == Slice(t1.index, t1.index + t2.index, seq.num_points)
        variants == IF Len(numseq) = 2
                    THEN Slice(numseq[1], numseq[2], seq.numseqs)
                    ELSE {numseq[1]}
    IN  [t2.seq EXCEPT !.pulses =
            [v \in DOMAIN @ |-> [r \in DOMAIN @[v] |-> [s \in DOMAIN @[v][r] |->
                IF v \in variants /\ r = channel /\ s \in range
                THEN @[v][r][s] + amplitude * Carrier(freq, s)
                ELSE @[v][r][s]]]]]

\* numseq is <<i>> for a scalar variant index and <<lo, hi>> for a pair:
\* the try branch slices numseq[0]:numseq[1], and a scalar falls to except
add_pulse(seq, numseq, start, duration, channel, inputtype, amplitude, freq) ==
    LET t1 == IF inputtype = "time" THEN time_to_index(seq, start)
              ELSE [index |-> start, seq |-> seq]
        t2 == IF inputtype = "time" THEN time_to_index(t1.seq, duration)
              ELSE [index |-> duration, seq |-> t1.seq]
        range == Slice(t1.index, t1.index + t2.index, seq.num_points)
        variants == IF Len(numseq) = 2
                    THEN Slice(numseq[1], numseq[2], seq.numseqs)
                    ELSE {numseq[1]}
    IN  [t2.seq EXCEPT !.pulses =
            [v \in DOMAIN @ |-> [r \in DOMAIN @[v] |-> [s \in DOMAIN @[v][r] |->
                IF v \in variants /\ r = channel /\ s \in range
                THEN amplitude * Carrier(freq, s)
                ELSE @[v][r][s]]]]]

RECURSIVE BitOr(_, _)
\* a | b on non-negative integers
BitOr(a, b) ==
    IF a = 0 THEN b
    ELSE IF b = 0 THEN a
    ELSE 2 * BitOr(a \div 2, b \div 2) + (IF a % 2 = 1 \/ b % 2 = 1 THEN 1 ELSE 0)

\* MarkerBit with a fault: marker row k lands on bit 7 - k + 1
MarkerBitShifted(value, bit_offset) ==
    ((IF value > 0 THEN 1 ELSE 0) * 2 ^ (8 - bit_offset)) % 256

\* (marker.astype(uint8) << (7 - bit_offset)), kept to eight bits
MarkerBit(value, bit_offset) ==
    ((IF value > 0 THEN 1 ELSE 0) * 2 ^ (7 - bit_offset)) % 256

RECURSIVE PackLoop(_, _, _)
\* the loop over bit_offset in range(6) for one sample of one source
PackLoop(packed, column, bit_offset) ==
    IF bit_offset > 5 THEN packed
    ELSE PackLoop(BitOr(packed, MarkerBit(column[bit_offset], bit_offset)),
                  column, bit_offset + 1)

\* the packed byte of source si at (variant v, sample s)
Packed(tensor, v, si, s) ==
    PackLoop(0, [k \in 0..5 |-> tensor[v][7 * si + 1 + k][s]], 0)

\* the array `final` of make
MakeFinal(seq) ==
    [v \in 0..(seq.numseqs - 1) |->
       [r \in 0..(2 * Len(seq.awg_sources) - 1) |->
          [s \in 0..(seq.num_points - 1) |->
             IF r % 2 = 0 THEN seq.pulses[v][7 * (r \div 2)][s]
             ELSE Packed(seq.pulses, v, r \div 2, s)]]]

Sha1(x) == <<"sha1", x>>

\* what make hands to np.savez
make(seq, sequencer, sequencernames, flag_channels) ==
    LET f == MakeFinal(seq)
    IN  [exists |-> TRUE,
         final |-> f,
         sequencer |-> sequencer,
         sequencernames |-> sequencernames,
         finalhash |-> Sha1(<<Sha1(f), Sha1(sequencer), Sha1(sequencernames)>>),
         flag_channels |-> flag_channels]

----------------------------------------------------------------------------
(* PulseSequenceYaml: the sidecar change cache and the array path.         *)

\* channel_mapping handed to PulseSequenceYaml: a row of the tensor or the
\* name of a flag
Row(n)  == [kind |-> "row", row |-> n, flag |-> ""]
Flag(s) == [kind |-> "flag", row |-> 0, flag |-> s]
channel_mapping == [a |-> Row(0), b |-> Row(2), f |-> Flag("READ")]

RECURSIVE InsertByKey(_, _)
InsertByKey(s, x) ==
    IF s = <<>> THEN <<x>>
    ELSE IF StrLess(x[1], Head(s)[1]) THEN <<x>> \o s
    ELSE <<Head(s)>> \o InsertByKey(Tail(s), x)

RECURSIVE SortByKey(_)
\* the entries of a dict in ascending key order
SortByKey(d) == IF d = <<>> THEN <<>>
                ELSE InsertByKey(SortByKey(SubSeq(d, 1, Len(d) - 1)), d[Len(d)])

MetaKeys == {"sequencing_order", "sequencing_repeats", "total_duration"}

\* yaml.dump: the text lists every mapping in sorted key order
DumpBlock(block) ==
    SortByKey([i \in DOMAIN block |-> <<block[i][1], SortByKey(block[i][2])>>])

YamlDump(doc) ==
    SortByKey([i \in DOMAIN doc |->
                 IF doc[i][1] \in MetaKeys THEN doc[i]
                 ELSE <<doc[i][1], DumpBlock(doc[i][2])>>])

\* dict == dict: the same keys with equal values, whatever the order
BlockItems(block) == {<<block[i][1], {block[i][2][j] : j \in DOMAIN block[i][2]}>> :
                        i \in DOMAIN block}

DictEq(d1, d2) ==
    /\ Keys(d1) = Keys(d2)
    /\ \A k \in Keys(d1) :
          IF k \in MetaKeys THEN Get(d1, k) = Get(d2, k)
          ELSE BlockItems(Get(d1, k)) = BlockItems(Get(d2, k))

Absent == [exists |-> FALSE, text |-> <<>>]

\* sequence_didnt_change with a fault: the two texts are compared as written
sequence_didnt_change_text(text, sidecar) ==
    [ret |-> sidecar.exists /\ sidecar.text = text,
     aux |-> [exists |-> TRUE, text |-> YamlDump(YamlLoad(text))]]

\* _sequence_didnt_change: the value returned and the sidecar left behind
sequence_didnt_change(text, sidecar) ==
    LET sequence_instructions == YamlLoad(text)
        written == [exists |-> TRUE, text |-> YamlDump(sequence_instructions)]
    IN  IF sidecar.exists
        THEN [ret |-> DictEq(YamlLoad(sidecar.text), sequence_instructions),
              aux |-> written]
        ELSE [ret |-> FALSE, aux |-> written]

RECURSIVE SortedNamesDescending(_)
\* SortedNames with a fault: sorted(..., reverse=True)
SortedNamesDescending(S) ==
    IF S = {} THEN <<>>
    ELSE LET m == CHOOSE x \in S : \A y \in S \ {x} : StrLess(y, x)
         IN  <<m>> \o SortedNamesDescending(S \ {m})

RECURSIVE SortedNames(_)
\* sorted(set(...)) of strings
SortedNames(S) ==
    IF S = {} THEN <<>>
    ELSE LET m == CHOOSE x \in S : \A y \in S \ {x} : StrLess(x, y)
         IN  <<m>> \o SortedNames(S \ {m})

Range(s) == {s[i] : i \in DOMAIN s}

PulseFields == {"start", "duration", "amplitude", "frequency", "phase"}

RECURSIVE PulsesLoop(_, _, _, _)
\* for pulse in pulses.values(): seq.add_pulse(...); a missing field raises
PulsesLoop(seq, i, mapped_channel, pulse_list) ==
    IF pulse_list = <<>> \/ seq.raised THEN seq
    ELSE LET pulse == Head(pulse_list)
         IN  IF ~(PulseFields \subseteq DOMAIN pulse)
             THEN [seq EXCEPT !.raised = TRUE]
             ELSE PulsesLoop(
                    add_pulse(seq, <<i>>, pulse.start, pulse.duration,
                             mapped_channel, "time", pulse.amplitude,
                             <<pulse.frequency, pulse.phase>>),
                    i, mapped_channel, Tail(pulse_list))

RECURSIVE ChannelsLoop(_, _, _)
\* for channel, pulses in sequence_instructions[block].items()
\* st = [seq, flags]: the PulseSequence and flag_channels[block]
ChannelsLoop(st, i, items) ==
    IF items = <<>> \/ st.seq.raised THEN st
    ELSE LET channel == Head(items)[1]
         IN  IF channel \notin DOMAIN channel_mapping
             THEN [st EXCEPT !.seq.raised = TRUE]
             ELSE IF channel_mapping[channel].kind = "flag"
             THEN ChannelsLoop(
                    [st EXCEPT !.flags = Append(@, channel_mapping[channel].flag)],
                    i, Tail(items))
             ELSE ChannelsLoop(
                    [st EXCEPT !.seq = PulsesLoop(@, i, channel_mapping[channel].row,
                                                  Values(Head(items)[2]))],
                    i, Tail(items))

RECURSIVE BlocksLoop(_, _, _, _, _)
\* for i, block in enumerate(sorted_pulse_blocks)
BlocksLoop(seq, flag_channels, i, sorted_pulse_blocks, doc) ==
    IF i >= Len(sorted_pulse_blocks) \/ seq.raised
    THEN [seq |-> seq, flag_channels |-> flag_channels]
    ELSE LET block == sorted_pulse_blocks[i + 1]
         IN  IF ~HasKey(doc, block)
             THEN [seq |-> [seq EXCEPT !.raised = TRUE],
                   flag_channels |-> flag_channels]
             ELSE LET st == ChannelsLoop([seq |-> seq, flags |-> <<>>], i,
                                         Get(doc, block))
                  IN  BlocksLoop(st.seq, Append(flag_channels, <<block, st.flags>>),
                                 i + 1, sorted_pulse_blocks, doc)

Pickle(x) == <<"pickle", x>>

\* translate_yaml_to_numeric_instructions after the cache check: the
\* artifact written, or raised when an exception ends the call before make
CompileArray(doc) ==
    LET sequence_order == Get(doc, "sequencing_order")
        repeats == Get(doc, "sequencing_repeats")
        total == Get(doc, "total_duration")
        sorted_pulse_blocks == SortedNames(Range(sequence_order))
    IN  IF total.kind = "str"
        THEN [raised |-> TRUE, artifact |-> [exists |-> FALSE]]
        ELSE LET r == BlocksLoop(PulseSequence(Len(sorted_pulse_blocks),
                                                  total.val, awg_sources),
                                 <<>>, 0, sorted_pulse_blocks, doc)
             IN  IF r.seq.raised
                 THEN [raised |-> TRUE, artifact |-> [exists |-> FALSE]]
                 ELSE [raised |-> FALSE,
                       artifact |-> make(r.seq, repeats, sequence_order,
                                         Pickle(r.flag_channels))]

\* one call of translate_yaml_to_numeric_instructions
translate_yaml_to_numeric_instructions ==
    /\ Len(hist) < MaxCalls
    /\ LET c == sequence_didnt_change(yaml_file, aux)
           r == CompileArray(YamlLoad(yaml_file))
           outcome == IF c.ret THEN "skipped"
                      ELSE IF r.raised THEN "error" ELSE "written"
       IN  /\ aux' = c.aux
           /\ ret' = c.ret
           /\ artifact' = IF outcome = "written" THEN r.artifact ELSE artifact
           /\ hist' = Append(hist, [spec |-> YamlLoad(yaml_file),
                                    aux_before |-> aux,
                                    aux_after |-> c.aux,
                                    ret |-> c.ret,
                                    outcome |-> outcome])
    /\ UNCHANGED <<yaml_file, analogVars, digitalVars>>

\* the user edits the specification between two calls
EditYaml(docs) ==
    /\ \E d \in docs \ {yaml_file} : yaml_file' = d
    /\ UNCHANGED <<aux, artifact, hist, ret, analogVars, digitalVars>>

----------------------------------------------------------------------------
(* PulseSequence used directly.                                            *)

\* the PulseSequence object the variables hold
Obj ==
    [num_points |-> (samp_rate.num * ObjDuration) \div samp_rate.den,
     numseqs |-> Cardinality(DOMAIN pulses),
     awg_sources |-> awg_sources,
     pulses |-> pulses,
     warning_counter |-> warning_counter,
     raised |-> FALSE]

Call(numseq, start, duration, channel, inputtype, amplitude, freq) ==
    [numseq |-> numseq, start |-> start, duration |-> duration,
     channel |-> channel, inputtype |-> inputtype, amplitude |-> amplitude,
     freq |-> freq]

\* the add_pulse calls the model draws
AddCalls ==
    {Call(n, s, d, c, "time", a, <<>>) :
        n \in {<<ObjSeqs - 1>>, <<0, ObjSeqs>>}, s \in {0, 2, 3}, d \in {2, 3},
        c \in {0, 3}, a \in {1, 2}}
    \cup
    {Call(<<0, ObjSeqs - 1>>, s, d, 0, "points", a, <<0, 0>>) :
        s \in {0, 1}, d \in {1, 2}, a \in {1, 2}}

DoAddPulse ==
    /\ Len(log) < MaxAdds
    /\ \E c \in AddCalls :
          LET seq == add_pulse(Obj, c.numseq, c.start, c.duration, c.channel,
                              c.inputtype, c.amplitude, c.freq)
          IN  /\ pulses' = seq.pulses
              /\ warning_counter' = seq.warning_counter
              /\ log' = Append(log, c)
    /\ UNCHANGED <<cacheVars, digitalVars>>

\* seq.flag_channels = pickle.dumps({}); seq.make("sequence.npz")
DoMake ==
    /\ ~artifact.exists
    /\ artifact' = make(Obj, <<>>, <<>>, Pickle(<<>>))
    /\ UNCHANGED <<yaml_file, aux, hist, ret, analogVars, digitalVars>>

----------------------------------------------------------------------------
(* Documents.                                                              *)

Pulse(start, duration, amplitude) ==
    [start |-> start, duration |-> duration, amplitude |-> amplitude,
     frequency |-> 0, phase |-> 0]

PulseNoFreq(start, duration, amplitude) ==
    [start |-> start, duration |-> duration, amplitude |-> amplitude]

MkDoc(order, repeats, total, blocks) ==
    <<<<"sequencing_order", order>>, <<"sequencing_repeats", repeats>>,
      <<"total_duration", total>>>> \o blocks

Reverse(s) == [i \in DOMAIN s |-> s[Len(s) + 1 - i]]

PulseNames == <<"p1", "p2", "p3", "p4">>

\* a dict of pulses named p1, p2, ... from a list of pulses
Named(pulse_list) == [i \in DOMAIN pulse_list |-> <<PulseNames[i], pulse_list[i]>>]

SeqsOfLen(S, n) == [1..n -> S]

SeqsUpTo(S, n) == UNION {SeqsOfLen(S, k) : k \in 0..n}

\* the pulses of the digital blocks
DigitalPulses == {Pulse(s, d, 1) : s \in {0, 2, 5}, d \in {0, 3, 5}}

\* every block over the channels a and b with at most MaxPulses pulses
DigitalBlocks ==
    LET lists == SeqsUpTo(DigitalPulses, MaxPulses)
        pairs == {xy \in lists \X lists : Len(xy[1]) + Len(xy[2]) <= MaxPulses}
    IN  {<<<<"a", Named(x)>>>> : x \in lists}
        \cup {<<<<"b", Named(x)>>>> : x \in lists}
        \cup {<<<<"a", Named(xy[1])>>, <<"b", Named(xy[2])>>>> : xy \in pairs}
        \cup {<<<<"b", Named(xy[2])>>, <<"a", Named(xy[1])>>>> : xy \in pairs}

Totals == {Num(5), Num(10), Ignore}

BlockDocs ==
    {MkDoc(<<"A">>, <<1>>, t, <<<<"A", b>>>>) : t \in Totals, b \in DigitalBlocks}

\* three blocks of native length 3, 2 and 4 under total_duration 10; block B
\* of a program is the second of them or a block without pulses
BlockLib ==
    {<<<<"a", Named(<<Pulse(2, 3, 1)>>)>>>>,
     <<<<"b", Named(<<Pulse(0, 5, 1), Pulse(5, 5, 1)>>)>>, <<"a", Named(<<Pulse(0, 0, 1)>>)>>>>,
     <<<<"a", Named(<<Pulse(2, 3, 1)>>)>>, <<"b", Named(<<Pulse(5, 3, 1)>>)>>>>}

ProgramDocs ==
    {MkDoc(o, r, Num(10), <<<<"A", x>>, <<"B", y>>>>) :
        o \in SeqsUpTo({"A", "B"}, MaxOrder) \ {<<>>},
        r \in SeqsUpTo(0..MaxRepeat, MaxOrder) \ {<<>>},
        x \in BlockLib,
        y \in {<<<<"b", Named(<<Pulse(0, 5, 1), Pulse(5, 5, 1)>>)>>,
                 <<"a", Named(<<Pulse(0, 0, 1)>>)>>>>,
               <<<<"a", <<>>>>>>}}

\* blocks of the array path: two channels; an overlap and a flag channel; a
\* pulse without frequency and phase; a channel the mapping does not know
ArrayBlocksA ==
    {<<<<"a", Named(<<Pulse(0, 2, 1)>>)>>, <<"b", Named(<<Pulse(2, 2, 1)>>)>>>>,
     <<<<"f", <<>>>>, <<"a", Named(<<Pulse(0, 4, 2), Pulse(2, 2, 1)>>)>>>>,
     <<<<"a", Named(<<PulseNoFreq(0, 2, 1)>>)>>>>,
     <<<<"zz", Named(<<Pulse(0, 2, 1)>>)>>>>}

ArrayBlocksB ==
    {<<<<"b", Named(<<Pulse(0, 2, 1)>>)>>>>,
     <<<<"a", Named(<<Pulse(2, 2, 2)>>)>>>>}

TranslateDocs ==
    LET lists == SeqsUpTo({"A", "B"}, MaxOrder) \ {<<>>}
    IN  UNION {{MkDoc(o, r, t, <<<<"A", x>>, <<"B", y>>>>) :
                   r \in SeqsOfLen(0..MaxRepeat, Len(o)),
                   t \in {Num(4), Ignore},
                   x \in ArrayBlocksA,
                   y \in ArrayBlocksB} : o \in lists}

\* the documents the user switches between in the cache specification; the
\* second is the first with every mapping listed in another order
CacheDocs ==
    {MkDoc(<<"A">>, <<2>>, Num(4), <<<<"A", x>>>>) :
        x \in {y \in ArrayBlocksA : \A i \in DOMAIN y : \A j \in DOMAIN y[i][2] :
                                       PulseFields \subseteq DOMAIN y[i][2][j][2]}}
    \cup {Reverse(MkDoc(<<"A">>, <<2>>, Num(4),
                        <<<<"A", <<<<"b", Named(<<Pulse(2, 2, 1)>>)>>,
                                   <<"a", Named(<<Pulse(0, 2, 1)>>)>>>>>>>>))}
    \cup {MkDoc(<<"A">>, <<3>>, Num(4), <<<<"A", x>>>>) : x \in ArrayBlocksB}

----------------------------------------------------------------------------
(* Specifications.                                                         *)

CacheIdle ==
    /\ aux = Absent
    /\ artifact = [exists |-> FALSE]
    /\ hist = <<>>
    /\ ret = FALSE

AnalogIdle ==
    /\ pulses = <<>>
    /\ warning_counter = 0
    /\ log = <<>>

DigitalStart(p) ==
    /\ pc = p
    /\ blk = 1
    /\ event_times = <<>>
    /\ event_channel = <<>>
    /\ events = <<>>
    /\ event_durations = <<>>
    /\ channel_bits = <<>>
    /\ pop_todo = <<>>
    /\ warned = FALSE
    /\ ps = [b \in {} |-> 0]
    /\ compiled = <<>>

\* the change cache: translate calls with edits of the document in between
CacheInit == yaml_file \in CacheDocs /\ CacheIdle /\ AnalogIdle /\ DigitalStart("idle")
CacheNext == translate_yaml_to_numeric_instructions \/ EditYaml(CacheDocs)
SpecCache == CacheInit /\ [][CacheNext]_vars

\* the array path on every document of TranslateDocs
TranslateInit ==
    yaml_file \in TranslateDocs /\ CacheIdle /\ AnalogIdle /\ DigitalStart("idle")
TranslateNext == translate_yaml_to_numeric_instructions
SpecTranslate == TranslateInit /\ [][TranslateNext]_vars

\* a PulseSequence driven through add_pulse
OverwriteInit ==
    /\ yaml_file = <<>>
    /\ CacheIdle
    /\ pulses = PulseSequence(ObjSeqs, ObjDuration, awg_sources).pulses
    /\ warning_counter = 0
    /\ log = <<>>
    /\ DigitalStart("idle")
OverwriteNext == DoAddPulse
SpecOverwrite == OverwriteInit /\ [][OverwriteNext]_vars

\* make on every tensor of one variant whose samples are 0 or 1
PackInit ==
    /\ yaml_file = <<>>
    /\ CacheIdle
    /\ pulses \in [0..0 -> [0..(7 * Len(awg_sources) - 1) ->
                     [0..((samp_rate.num * ObjDuration) \div samp_rate.den - 1) -> {0, 1}]]]
    /\ warning_counter = 0
    /\ log = <<>>
    /\ DigitalStart("idle")
PackNext == DoMake
SpecPack == PackInit /\ [][PackNext]_vars

\* the digital path on every single-block document of BlockDocs
BlockInit == yaml_file \in BlockDocs /\ CacheIdle /\ AnalogIdle /\ DigitalStart("parse")
Init == BlockInit
Next == DigitalNext
Spec == Init /\ [][Next]_vars

\* the digital path on the programs of ProgramDocs
ProgramInit ==
    yaml_file \in ProgramDocs /\ CacheIdle /\ AnalogIdle /\ DigitalStart("parse")
SpecProgram == ProgramInit /\ [][DigitalNext]_vars

----------------------------------------------------------------------------
(* Claims about the digital path.                                          *)

RECURSIVE SumSeq(_)
SumSeq(s) == IF s = <<>> THEN 0 ELSE Head(s) + SumSeq(Tail(s))

RECURSIVE SumOver(_, _)
SumOver(S, f) == IF S = {} THEN 0
                 ELSE LET x == CHOOSE y \in S : TRUE IN f[x] + SumOver(S \ {x}, f)

RECURSIVE Ascending(_)
\* the members of a set of integers in ascending order
Ascending(S) == IF S = {} THEN <<>>
                ELSE LET m == CHOOSE x \in S : \A y \in S : x <= y
                     IN  <<m>> \o Ascending(S \ {m})

\* the block being compiled and its pulses as <<channel, name, start, end>>
CurrentBlock == Get(yaml_sequence, sequencing_order[blk])

PulsesOf(block) ==
    UNION {{<<block[i][1], block[i][2][j][1], block[i][2][j][2].start,
              block[i][2][j][2].start + block[i][2][j][2].duration>> :
              j \in DOMAIN block[i][2]} : i \in DOMAIN block}

\* at least one pulse, no negative duration, every pulse inside [0, total],
\* no two pulses of one channel overlapping
WellFormedBlock(block, total) ==
    /\ PulsesOf(block) # {}
    /\ \A p \in PulsesOf(block) : 0 <= p[3] /\ p[3] <= p[4] /\ p[4] <= total
    /\ \A p, q \in PulsesOf(block) :
          p # q /\ p[1] = q[1] =>
             ~(p[3] < q[4] /\ q[3] < p[4] /\ p[3] < p[4] /\ q[3] < q[4])

\* the timeline of [0, total): one <<bits, duration>> pair per pair of
\* consecutive distinct boundary times
Timeline(block, total) ==
    LET bounds == Ascending({0, total} \cup {p[3] : p \in PulsesOf(block)}
                                       \cup {p[4] : p \in PulsesOf(block)})
        on(i) == {c \in Keys(block) :
                    \E p \in PulsesOf(block) :
                       p[1] = c /\ p[3] <= bounds[i] /\ bounds[i + 1] <= p[4]}
    IN  [i \in 1..(Len(bounds) - 1) |->
           <<SumOver(on(i), [c \in Keys(block) |-> 2 ^ digital_mapping[c]]),
             bounds[i + 1] - bounds[i]>>]

Zip2(x, y) == [i \in DOMAIN x |-> <<x[i], y[i]>>]

\* C2: when a well-formed block with a numeric total_duration has been
\* compiled (pruning finished), channel_bits and event_durations are the
\* timeline of [0, total_duration): one segment per pair of consecutive
\* distinct boundary times, its bit-field the sum of 2^index over the
\* channels with a pulse covering it.
C2_Timeline ==
    (/\ pc = "store"
     /\ total_duration.kind = "num"
     /\ WellFormedBlock(CurrentBlock, total_duration.val))
    => /\ Len(channel_bits) = Len(event_durations)
       /\ Zip2(channel_bits, event_durations)
            = Timeline(CurrentBlock, total_duration.val)

\* C2 witness: one pulse (start 2, duration 3) on channel a (index 1) with
\* total_duration 10 has compiled to [(0,2), (2,3), (0,5)].
C2_Witness ==
    /\ pc = "store"
    /\ total_duration = Num(10)
    /\ CurrentBlock = <<<<"a", <<<<"p1", Pulse(2, 3, 1)>>>>>>>>
    /\ channel_bits = <<0, 2, 0>>
    /\ event_durations = <<2, 3, 5>>

\* C8: channel_bits and event_durations have the same length when
\* _pop_uncessary_entries starts and after each removal, no "Skipping bad
\* index" branch is taken, and after pruning no duration equals 0.
C8_Lockstep ==
    /\ pc = "pop" => Len(channel_bits) = Len(event_durations)
    /\ ~warned
    /\ pc = "store" => /\ Len(channel_bits) = Len(event_durations)
                       /\ \A i \in DOMAIN event_durations : event_durations[i] # 0
    /\ \A b \in DOMAIN ps : \A i \in DOMAIN ps[b].durations : ps[b].durations[i] # 0

\* C8 witness: a block holding a pulse with start = duration = 0 and another
\* pulse starting at 0 has been pruned, and something is left.
C8_Witness ==
    /\ pc = "store"
    /\ \E p, q \in PulsesOf(CurrentBlock) :
          p # q /\ p[3] = 0 /\ p[4] = 0 /\ q[3] = 0 /\ q[4] > 0
    /\ event_durations # <<>>

\* the events of the current block in channel-then-pulse enumeration order
Enumerated ==
    LET ev == parse_block(EventLists(<<>>, <<>>, <<>>), CurrentBlock)
    IN  Zip3(ev.times, ev.channel, ev.events)

SortedEvents == Zip3(event_times, event_channel, events)

Count(s, x) == Cardinality({i \in DOMAIN s : s[i] = x})

\* C9 as stated: after _sort_pulses the events are the enumeration sorted
\* stably on the time alone.
C9_StableOnTime ==
    pc = "durations" => SortedEvents = StableByTime(Enumerated)

\* C9 amended: after _sort_pulses the events are a permutation of the
\* enumeration in ascending order of the whole (time, channel name, event)
\* tuple: equal times are ordered by channel name in code-point order, and
\* equal time and channel put "down" before "up".
C9_TupleOrder ==
    pc = "durations" =>
      /\ \A x \in Range(SortedEvents) \cup Range(Enumerated) :
            Count(SortedEvents, x) = Count(Enumerated, x)
      /\ \A i \in 1..(Len(SortedEvents) - 1) :
            LET x == SortedEvents[i]
                y == SortedEvents[i + 1]
            IN  \/ x[1] < y[1]
                \/ x[1] = y[1] /\ StrRank(x[2]) < StrRank(y[2])
                \/ x[1] = y[1] /\ x[2] = y[2] /\ (x[3] = "down" \/ y[3] = "up")

\* C9 witness: two events at one time have left the order of enumeration.
C9_Witness ==
    /\ pc = "durations"
    /\ SortedEvents # StableByTime(Enumerated)

\* where block i of the program starts in the compiled lists
RECURSIVE Offset(_)
Offset(i) ==
    IF i <= 1 THEN 0
    ELSE Offset(i - 1)
         + sequencing_repeats[i - 1] * Len(ps[sequencing_order[i - 1]].durations)

\* C4: with sequencing_order and sequencing_repeats of equal length, compile
\* returns two lists of length sum(repeat_i * native_length_i) in which
\* repetition r of block i occupies the positions
\* Offset(i) + r * native_length_i + 1 .. + native_length_i, entry for entry,
\* in both lists.
C4_RepeatExpansion ==
    (pc = "done" /\ Len(sequencing_order) = Len(sequencing_repeats)) =>
      /\ Len(compiled[1]) = Offset(Len(sequencing_order) + 1)
      /\ Len(compiled[2]) = Offset(Len(sequencing_order) + 1)
      /\ \A i \in DOMAIN sequencing_order :
            LET native == ps[sequencing_order[i]]
                n == Len(native.durations)
            IN  /\ Len(native.channel_bits) = n
                /\ \A r \in 0..(sequencing_repeats[i] - 1) : \A k \in 1..n :
                      /\ compiled[1][Offset(i) + r * n + k] = native.channel_bits[k]
                      /\ compiled[2][Offset(i) + r * n + k] = native.durations[k]

\* C4 witness: a block of native length 4 repeated 3 times has given 12
\* entries, after another block.
C4_Witness ==
    /\ pc = "done"
    /\ Len(sequencing_order) = 2 /\ Len(sequencing_repeats) = 2
    /\ sequencing_repeats[1] > 0
    /\ Len(ps[sequencing_order[1]].durations) > 0
    /\ sequencing_repeats[2] = 3
    /\ Len(ps[sequencing_order[2]].durations) = 4
    /\ Len(compiled[1]) = Offset(2) + 12

----------------------------------------------------------------------------
(* Claims about the change cache and the array path.                       *)

\* a document as the mapping it denotes: key -> value, channel -> pulse
\* name -> pulse
PulsesFn(p) == [n \in Keys(p) |-> Get(p, n)]
BlockFn(b) == [c \in Keys(b) |-> PulsesFn(Get(b, c))]
DocFn(d) == [k \in Keys(d) |-> IF k \in MetaKeys THEN Get(d, k) ELSE BlockFn(Get(d, k))]

StructEqual(d1, d2) == DocFn(d1) = DocFn(d2)

\* C1: every completed call returns true iff the sidecar existed and was
\* structurally equal to the specification before the call, and leaves the
\* sidecar equal to the specification; so two consecutive calls with the
\* same specification, the first from an absent sidecar, return false then
\* true.
C1_ChangeCache ==
    /\ \A i \in DOMAIN hist :
          /\ hist[i].ret = (/\ hist[i].aux_before.exists
                            /\ StructEqual(hist[i].aux_before.text, hist[i].spec))
          /\ hist[i].aux_after.exists
          /\ StructEqual(hist[i].aux_after.text, hist[i].spec)
    /\ \A i \in DOMAIN hist :
          (/\ i + 1 \in DOMAIN hist
           /\ ~hist[i].aux_before.exists
           /\ StructEqual(hist[i].spec, hist[i + 1].spec))
          => (~hist[i].ret /\ hist[i + 1].ret)
    /\ hist # <<>> => ret = hist[Len(hist)].ret /\ aux = hist[Len(hist)].aux_after

\* C1 witness: from an absent sidecar, two calls on the same specification,
\* its mappings listed in another order the second time, returned false
\* then true.
C1_Witness ==
    /\ Len(hist) = 2
    /\ ~hist[1].aux_before.exists
    /\ StructEqual(hist[1].spec, hist[2].spec)
    /\ hist[1].spec # hist[2].spec
    /\ ~hist[1].ret
    /\ hist[2].ret

\* C10: whenever a call returns early because the cache reports
\* "unchanged", an earlier call has written an artifact compiled from
\* exactly the current specification.
C10_SkipImpliesArtifact ==
    \A i \in DOMAIN hist :
       hist[i].outcome = "skipped" =>
          \E j \in 1..(i - 1) :
             /\ hist[j].outcome = "written"
             /\ StructEqual(hist[j].spec, hist[i].spec)

\* the blocks the array path compiles, and their pulses on numeric rows as
\* <<block, row, pulse>>
CompiledBlocks(doc) == Range(Get(doc, "sequencing_order"))

RowPulses(doc) ==
    UNION {UNION {{<<b, channel_mapping[Get(doc, b)[i][1]].row, Get(doc, b)[i][2][j][2]>> :
                     j \in DOMAIN Get(doc, b)[i][2]} :
                  i \in {n \in DOMAIN Get(doc, b) :
                           /\ Get(doc, b)[n][1] \in DOMAIN channel_mapping
                           /\ channel_mapping[Get(doc, b)[n][1]].kind = "row"}} :
           b \in CompiledBlocks(doc)}

\* nothing but a missing frequency or phase can stop the compilation
OnlyModulationMissing(doc) ==
    /\ Get(doc, "total_duration").kind = "num"
    /\ \A b \in CompiledBlocks(doc) :
          /\ HasKey(doc, b)
          /\ \A i \in DOMAIN Get(doc, b) : Get(doc, b)[i][1] \in DOMAIN channel_mapping
    /\ \A x \in RowPulses(doc) : {"start", "duration", "amplitude"} \subseteq DOMAIN x[3]
    /\ \E x \in RowPulses(doc) : "frequency" \notin DOMAIN x[3]

\* the variant of a block: its rank among the names of the compiled blocks
VariantOf(doc, b) ==
    Cardinality({x \in CompiledBlocks(doc) : StrRank(x) < StrRank(b)})

Quantized(time) == RoundHalfEven(samp_rate.num * time, samp_rate.den)

Covers(pulse, s) ==
    Quantized(pulse.start) <= s /\ s < Quantized(pulse.start) + Quantized(pulse.duration)

\* C7: a call that compiles a pulse without frequency and phase (and meets
\* no other error) does not fail, and the analog row of that pulse holds
\* its flat amplitude over the quantized range.
C7_ModulationOptional ==
    \A i \in DOMAIN hist :
       (~hist[i].ret /\ OnlyModulationMissing(hist[i].spec)) =>
          /\ hist[i].outcome = "written"
          /\ artifact.exists
          /\ \A x \in RowPulses(hist[i].spec) :
                ("frequency" \notin DOMAIN x[3] /\ x[2] = 0) =>
                   \A s \in DOMAIN artifact.final[VariantOf(hist[i].spec, x[1])][0] :
                      Covers(x[3], s) =>
                         artifact.final[VariantOf(hist[i].spec, x[1])][0][s]
                            = x[3].amplitude

\* the documents of the specification are never edited in SpecTranslate:
\* the artifact, once written, was compiled from yaml_file
Program == YamlLoad(yaml_file)

\* C3 as stated: the variant axis has length sum(repeat_i * 1), a block's
\* compiled analog form being one variant, laid out in program order with
\* block i duplicated repeat_i times.
C3_RepeatsExpanded ==
    artifact.exists =>
       LET order == Get(Program, "sequencing_order")
           repeats == Get(Program, "sequencing_repeats")
           expanded == compile(order, repeats,
                               [b \in Range(order) |->
                                  [channel_bits |-> <<b>>, durations |-> <<b>>]])[1]
       IN  /\ Cardinality(DOMAIN artifact.final) = SumSeq(repeats)
           /\ \A v \in DOMAIN artifact.final : \A s \in DOMAIN artifact.final[v][0] :
                 artifact.final[v][0][s] # 0
                    <=> \E x \in RowPulses(Program) :
                           x[1] = expanded[v + 1] /\ x[2] = 0 /\ Covers(x[3], s)

\* C3 amended: the variant axis has one variant per distinct block of
\* sequencing_order, in ascending order of the block names, whatever the
\* repeat counts; sequencing_order and sequencing_repeats are stored in the
\* artifact as they are, unexpanded.
C3_OneVariantPerBlock ==
    artifact.exists =>
       LET order == Get(Program, "sequencing_order")
           repeats == Get(Program, "sequencing_repeats")
       IN  /\ DOMAIN artifact.final = 0..(Cardinality(Range(order)) - 1)
           /\ artifact.sequencer = repeats
           /\ artifact.sequencernames = order
           /\ \A b \in Range(order) : \A s \in DOMAIN artifact.final[VariantOf(Program, b)][0] :
                 /\ artifact.final[VariantOf(Program, b)][0][s] # 0
                      <=> \E x \in RowPulses(Program) :
                             x[1] = b /\ x[2] = 0 /\ Covers(x[3], s)
                 /\ artifact.final[VariantOf(Program, b)][1][s] = 64
                      <=> \E x \in RowPulses(Program) :
                             x[1] = b /\ x[2] = 2 /\ Covers(x[3], s)

\* C3 witness: a program that runs B before A, with repeat counts 3 and 2,
\* has been written as two variants.
C3_Witness ==
    /\ artifact.exists
    /\ Get(Program, "sequencing_order") = <<"B", "A">>
    /\ Get(Program, "sequencing_repeats") = <<3, 2>>
    /\ Cardinality(DOMAIN artifact.final) = 2

----------------------------------------------------------------------------
(* Claims about PulseSequence.                                             *)

\* the six marker rows of source 0 at (variant v, sample s)
MarkerColumn(v, s) == [k \in 0..5 |-> pulses[v][1 + k][s]]

Pattern010101 == [k \in 0..5 |-> k % 2]

Bit(byte, position) == (byte \div 2 ^ position) % 2

\* C5 as stated: marker rows holding {0,1,0,1,0,1} at bit offsets 0..5 pack
\* to 0b10101000.
C5_Packs10101000 ==
    artifact.exists =>
       \A v \in DOMAIN pulses : \A s \in DOMAIN pulses[v][0] :
          MarkerColumn(v, s) = Pattern010101 => artifact.final[v][1][s] = 168

\* C5 amended: marker rows holding {0,1,0,1,0,1} at bit offsets 0..5 pack to
\* 0b01010100 (bits 6, 4 and 2 set): marker row k sets bit 7 - k of the
\* byte exactly when its value is > 0, and bits 1 and 0 stay clear.
C5_Packs01010100 ==
    artifact.exists =>
       \A v \in DOMAIN pulses : \A s \in DOMAIN pulses[v][0] :
          /\ MarkerColumn(v, s) = Pattern010101 => artifact.final[v][1][s] = 84
          /\ \A k \in 0..5 :
                Bit(artifact.final[v][1][s], 7 - k) = 1 <=> pulses[v][1 + k][s] > 0
          /\ artifact.final[v][1][s] \in 0..255
          /\ artifact.final[v][1][s] % 4 = 0
          /\ artifact.final[v][0][s] = pulses[v][0][s]

\* C5 witness: make has packed a sample whose marker rows hold {0,1,0,1,0,1}.
C5_Witness ==
    /\ artifact.exists
    /\ \E v \in DOMAIN pulses : \E s \in DOMAIN pulses[v][0] :
          MarkerColumn(v, s) = Pattern010101

\* the variants and the samples call c of the log writes
CallVariants(c) ==
    IF Len(c.numseq) = 2 THEN {v \in DOMAIN pulses : c.numseq[1] <= v /\ v < c.numseq[2]}
    ELSE {c.numseq[1]}

CallStart(c) == IF c.inputtype = "time" THEN Quantized(c.start) ELSE c.start

CallLength(c) == IF c.inputtype = "time" THEN Quantized(c.duration) ELSE c.duration

Writes(c, v, r, s) ==
    /\ v \in CallVariants(c)
    /\ r = c.channel
    /\ CallStart(c) <= s /\ s < CallStart(c) + CallLength(c)

\* C6: after any sequence of add_pulse calls with flat amplitudes, every
\* sample holds the amplitude of the last call whose variant, row and range
\* contain it, or 0 when no call does: never a sum, and nothing else is
\* changed.
C6_Overwrite ==
    \A v \in DOMAIN pulses : \A r \in DOMAIN pulses[v] : \A s \in DOMAIN pulses[v][r] :
       LET hits == {i \in DOMAIN log : Writes(log[i], v, r, s)}
       IN  pulses[v][r][s] =
              IF hits = {} THEN 0
              ELSE log[CHOOSE i \in hits : \A j \in hits : j <= i].amplitude

\* C6 witness: two calls of different amplitude overlap on a sample, which
\* holds the amplitude of the second.
C6_Witness ==
    /\ Len(log) = 2
    /\ log[1].amplitude # log[2].amplitude
    /\ \E v \in DOMAIN pulses : \E r \in DOMAIN pulses[v] : \E s \in DOMAIN pulses[v][r] :
          /\ Writes(log[1], v, r, s)
          /\ Writes(log[2], v, r, s)
          /\ pulses[v][r][s] = log[2].amplitude

====
